---- MODULE Spec2Model ----
(***************************************************************************)
(* Model of the JelloDerivTrader ledger (src/main.py): a static instrument *)
(* catalog, a map of open positions, an append-only trade log, an          *)
(* identifier counter and one reference index.  All amounts are Python     *)
(* decimal.Decimal values; the module carries the Decimal arithmetic the   *)
(* code relies on (28 significant digits, round-half-even), because the    *)
(* margin checks and the fee are decided by it.                            *)
(***************************************************************************)
EXTENDS Integers, Sequences, FiniteSets, TLC

(***************************************************************************)
(* Natural numbers of any size: little-endian sequences of limbs in base   *)
(* NBase without high zeros; << >> is zero.  (Model values are 32-bit, a   *)
(* mark price has 19 decimal digits.)                                      *)
(*                                                                         *)
(* Every operator evaluates its arguments once: it binds them with         *)
(*     CHOOSE r \in {body : a \in {x}} : TRUE                              *)
(* which is body with a the value of x.  Carries are found by look-ahead   *)
(* rather than by recursion over the limbs.                                *)
(***************************************************************************)
NBase == 10000

\* x without its high zero limbs
NNorm(x) ==
    CHOOSE r \in
      { LET top == CHOOSE i \in 0..Len(a) :
                       /\ i = 0 \/ a[i] # 0
                       /\ \A j \in (i + 1)..Len(a) : a[j] = 0
        IN  SubSeq(a, 1, top)
        : a \in {x \o << >>} } : TRUE

\* the number n >= 0, which has at most three limbs
NFromInt(n) ==
    NNorm(<<n % NBase, (n \div NBase) % NBase, n \div (NBase * NBase)>>)

NLimb(a, i) == IF i <= Len(a) THEN a[i] ELSE 0

\* x + y, for limbs below NBase (high zeros allowed)
NAdd(x, y) ==
    CHOOSE r \in
      { LET n     == IF Len(a) > Len(b) THEN Len(a) ELSE Len(b)
            S(i)  == NLimb(a, i) + NLimb(b, i)
            \* the carry into limb i
            C(i)  == IF \E j \in 1..(i - 1) :
                           /\ S(j) >= NBase
                           /\ \A k \in (j + 1)..(i - 1) : S(k) = NBase - 1
                     THEN 1 ELSE 0
        IN  NNorm([i \in 1..(n + 1) |-> (S(i) + C(i)) % NBase])
        : a \in {x}, b \in {y} } : TRUE

\* x - y, for x >= y
NSub(x, y) ==
    CHOOSE r \in
      { LET \* the borrow from limb i
            B(i) == IF \E j \in 1..(i - 1) :
                          /\ a[j] < NLimb(b, j)
                          /\ \A k \in (j + 1)..(i - 1) : a[k] = NLimb(b, k)
                    THEN 1 ELSE 0
        IN  NNorm([i \in 1..Len(a) |->
                      (a[i] - NLimb(b, i) - B(i) + NBase) % NBase])
        : a \in {x}, b \in {y} } : TRUE

\* -1, 0, 1 as x < y, x = y, x > y
NCmp(x, y) ==
    CHOOSE r \in
      { IF Len(a) < Len(b) THEN -1
        ELSE IF Len(a) > Len(b) THEN 1
        ELSE IF a = b THEN 0
        ELSE LET top == CHOOSE i \in 1..Len(a) :
                           /\ a[i] # b[i]
                           /\ \A j \in (i + 1)..Len(a) : a[j] = b[j]
             IN  IF a[top] < b[top] THEN -1 ELSE 1
        : a \in {x}, b \in {y} } : TRUE

\* x * d for one limb d: the low halves of the limb products plus their
\* high halves one limb up
NMulLimb(x, d) ==
    CHOOSE r \in
      { IF d = 0 \/ a = << >> THEN << >>
        ELSE NAdd([i \in 1..Len(a) |-> (a[i] * d) % NBase] \o << >>,
                  <<0>> \o [i \in 1..Len(a) |-> (a[i] * d) \div NBase])
        : a \in {x} } : TRUE

\* a * NBase^k
NShiftLimbs(a, k) == IF a = << >> THEN a ELSE [i \in 1..k |-> 0] \o a

\* a times the limbs of b from the j-th on, each at its place
RECURSIVE NMulFrom(_, _, _)
NMulFrom(a, b, j) ==
    IF j > Len(b) THEN << >>
    ELSE NAdd(NShiftLimbs(NMulLimb(a, b[j]), j - 1), NMulFrom(a, b, j + 1))

NMul(x, y) ==
    CHOOSE r \in
      { IF a = << >> \/ b = << >> THEN << >> ELSE NMulFrom(a, b, 1)
        : a \in {x}, b \in {y} } : TRUE

\* divmod(a, d) for one limb d > 0, from the top limb a[i] down: the
\* quotient limbs q and the remainder r so far
RECURSIVE NDivLimbFrom(_, _, _, _, _)
NDivLimbFrom(a, d, i, q0, r0) ==
    CHOOSE res \in
      { IF i = 0 THEN [q |-> NNorm(q), r |-> IF r = 0 THEN << >> ELSE <<r>>]
        ELSE NDivLimbFrom(a, d, i - 1, <<(r * NBase + a[i]) \div d>> \o q,
                          (r * NBase + a[i]) % d)
        : q \in {q0}, r \in {r0} } : TRUE

NDivLimb(x, d) ==
    CHOOSE res \in { NDivLimbFrom(a, d, Len(a), << >>, 0) : a \in {x} } : TRUE

\* the quotient limb: the estimate is lowered until qhat * b <= r
RECURSIVE NAdjust(_, _, _)
NAdjust(r, b, est) ==
    CHOOSE res \in
      { IF NCmp(NMulLimb(b, qhat), r) > 0 THEN NAdjust(r, b, qhat - 1)
        ELSE qhat
        : qhat \in {est} } : TRUE

\* the quotient limb of r by b, for r < b * NBase and b's top limb at least
\* NBase / 2: estimated from the top limbs (r and b are values)
NQuotLimb(r, b) ==
    IF NCmp(r, b) < 0 THEN 0
    ELSE LET n    == Len(b)
             rtop == IF Len(r) > n THEN r[n + 1] * NBase + r[n] ELSE r[n]
             est  == rtop \div b[n]
         IN  NAdjust(r, b, IF est > NBase - 1 THEN NBase - 1 ELSE est)

\* long division, from the top limb a[i] down: the quotient limbs q and the
\* remainder r so far (a and b are values)
RECURSIVE NDivFrom(_, _, _, _, _)
NDivFrom(a, b, i, q0, r0) ==
    CHOOSE res \in
      { IF i = 0 THEN [q |-> NNorm(q), r |-> r]
        ELSE CHOOSE res2 \in
               { NDivFrom(a, b, i - 1, <<f>> \o q, NSub(r1, NMulLimb(b, f)))
                 : f \in {NQuotLimb(r1, b)} } : TRUE
        : q \in {q0}, r \in {r0},
          r1 \in {IF i = 0 THEN r0 ELSE NNorm(<<a[i]>> \o r0)} } : TRUE

\* divmod(x, y) for y > 0: both are scaled by d so that y's top limb is at
\* least NBase / 2, which leaves the quotient and scales the remainder
NDivMod(x, y) ==
    CHOOSE res \in
      { IF Len(b) = 1 THEN NDivLimb(a, b[1])
        ELSE CHOOSE res2 \in
               { [q |-> qr.q, r |-> NDivLimb(qr.r, NBase \div (b[Len(b)] + 1)).q]
                 : qr \in { CHOOSE res3 \in
                              { NDivFrom(ad, bd, Len(ad), << >>, << >>)
                                : ad \in {NMulLimb(a, NBase \div (b[Len(b)] + 1))},
                                  bd \in {NMulLimb(b, NBase \div (b[Len(b)] + 1))} }
                              : TRUE } } : TRUE
        : a \in {x}, b \in {y} } : TRUE

\* 10^k
NPow10(k) == [i \in 1..(k \div 4) |-> 0] \o <<(<<1, 10, 100, 1000>>)[(k % 4) + 1]>>

\* the number of decimal digits of x (0 for zero)
NDigits(x) ==
    CHOOSE r \in
      { IF a = << >> THEN 0
        ELSE 4 * (Len(a) - 1)
             + (IF a[Len(a)] >= 1000 THEN 4 ELSE IF a[Len(a)] >= 100 THEN 3
                ELSE IF a[Len(a)] >= 10 THEN 2 ELSE 1)
        : a \in {x} } : TRUE

\* the number of low decimal zeros of x # 0
NLowZeros(x) ==
    CHOOSE r \in
      { LET i == CHOOSE j \in 1..Len(a) :
                    a[j] # 0 /\ \A k \in 1..(j - 1) : a[k] = 0
        IN  4 * (i - 1)
            + (IF a[i] % 1000 = 0 THEN 3 ELSE IF a[i] % 100 = 0 THEN 2
               ELSE IF a[i] % 10 = 0 THEN 1 ELSE 0)
        : a \in {x} } : TRUE

(***************************************************************************)
(* decimal.Decimal: sign (0 plus, 1 minus), coefficient, exponent; the     *)
(* value is (-1)^sign * coef * 10^exp.  Arithmetic is the default          *)
(* context's: results are rounded half-even to DecimalPrec digits.         *)
(***************************************************************************)
DecimalPrec == 28

Dec(sign, coef, exp) == [sign |-> sign, coef |-> coef, exp |-> exp]

\* the Decimal n * 10^e of an int n
DecE(n, e) == Dec(IF n < 0 THEN 1 ELSE 0, NFromInt(IF n < 0 THEN -n ELSE n), e)

\* the Decimal an int converts to
DInt(n) == DecE(n, 0)

DIsZero(x) == x.coef = << >>

\* rounding half-even: the quotient q and remainder of the coefficient by
\* 10^k, k digits being dropped
DRound(sign, exp, k, qr) ==
    CHOOSE r \in
      { IF NDigits(c1) > DecimalPrec
        THEN Dec(sign, NDivLimb(c1, 10).q, exp + k + 1)
        ELSE Dec(sign, c1, exp + k)
        : c1 \in { LET half == NCmp(NMulLimb(qr.r, 2), NPow10(k))
                   IN  IF half > 0 \/ (half = 0 /\ NLimb(qr.q, 1) % 2 = 1)
                       THEN NAdd(qr.q, <<1>>) ELSE qr.q } } : TRUE

\* Decimal._fix: round to the context's precision, half-even
DFix(x) ==
    CHOOSE r \in
      { IF NDigits(d.coef) <= DecimalPrec THEN d
        ELSE CHOOSE r2 \in
               { DRound(d.sign, d.exp, NDigits(d.coef) - DecimalPrec, qr)
                 : qr \in {NDivMod(d.coef,
                                   NPow10(NDigits(d.coef) - DecimalPrec))} }
               : TRUE
        : d \in {x} } : TRUE

DNeg(x) == [x EXCEPT !.sign = 1 - x.sign]

\* Decimal.__mul__
DMul(x, y) ==
    CHOOSE r \in
      { DFix(Dec(IF a.sign = b.sign THEN 0 ELSE 1, NMul(a.coef, b.coef),
                 a.exp + b.exp))
        : a \in {x}, b \in {y} } : TRUE

\* the coefficient of the value a at the exponent e <= a.exp
DCoefAt(a, e) == NMul(a.coef, NPow10(a.exp - e))

\* Decimal.__add__
DAdd(x, y) ==
    CHOOSE r \in
      { CHOOSE r2 \in
          { LET e == IF a.exp < b.exp THEN a.exp ELSE b.exp
                c == NCmp(ca, cb)
            IN  IF a.sign = b.sign THEN DFix(Dec(a.sign, NAdd(ca, cb), e))
                ELSE IF c = 0 THEN Dec(0, << >>, e)
                ELSE IF c > 0 THEN DFix(Dec(a.sign, NSub(ca, cb), e))
                ELSE DFix(Dec(b.sign, NSub(cb, ca), e))
            : ca \in {DCoefAt(a, IF a.exp < b.exp THEN a.exp ELSE b.exp)},
              cb \in {DCoefAt(b, IF a.exp < b.exp THEN a.exp ELSE b.exp)} }
          : TRUE
        : a \in {x}, b \in {y} } : TRUE

\* Decimal.__sub__
DSub(x, y) == DAdd(x, DNeg(y))

\* an exact quotient c * 10^e is brought as close to the ideal exponent as
\* its low zeros allow (c is a value)
DStrip(sign, c, e, ideal) ==
    LET z == IF c = << >> THEN 0 ELSE NLowZeros(c)
        k == IF z < ideal - e THEN z ELSE ideal - e
    IN  IF k <= 0 THEN Dec(sign, c, e)
        ELSE Dec(sign, NDivMod(c, NPow10(k)).q, e + k)

\* Decimal.__truediv__ for a nonzero divisor (a zero divisor raises, which
\* the callers model)
DDiv(x, y) ==
    CHOOSE r \in
      { LET sign  == IF a.sign = b.sign THEN 0 ELSE 1
            shift == NDigits(b.coef) - NDigits(a.coef) + DecimalPrec + 1
            exp0  == a.exp - b.exp - shift
        IN  IF DIsZero(a) THEN Dec(sign, << >>, a.exp - b.exp)
            ELSE CHOOSE r2 \in
                   { IF dm.r # << >>
                     THEN DFix(Dec(sign,
                                   IF NLimb(dm.q, 1) % 5 = 0
                                   THEN NAdd(dm.q, <<1>>) ELSE dm.q,
                                   exp0))
                     ELSE DFix(DStrip(sign, dm.q, exp0, a.exp - b.exp))
                     : dm \in { IF shift >= 0
                                THEN NDivMod(NMul(a.coef, NPow10(shift)), b.coef)
                                ELSE NDivMod(a.coef,
                                             NMul(b.coef, NPow10(-shift))) } }
                   : TRUE
        : a \in {x}, b \in {y} } : TRUE

\* -1, 0, 1: the sign of the value
DSgn(x) == IF DIsZero(x) THEN 0 ELSE IF x.sign = 1 THEN -1 ELSE 1

\* Decimal comparison is exact: -1, 0, 1 as x < y, x = y, x > y
DCmp(x, y) ==
    CHOOSE r \in
      { IF DSgn(a) # DSgn(b) THEN (IF DSgn(a) < DSgn(b) THEN -1 ELSE 1)
        ELSE IF DSgn(a) = 0 THEN 0
        ELSE LET e == IF a.exp < b.exp THEN a.exp ELSE b.exp
             IN  DSgn(a) * NCmp(DCoefAt(a, e), DCoefAt(b, e))
        : a \in {x}, b \in {y} } : TRUE

DLt(x, y) == DCmp(x, y) < 0
DEq(x, y) == DCmp(x, y) = 0
DGe(x, y) == DCmp(x, y) >= 0

(***************************************************************************)
(* Constants of the program                                                *)
(***************************************************************************)
GELATIN_INDEX_BASE   == DecE(18473291, -4)
WOBBLE_MULTIPLIER    == DecE(371, -5)
CONVEXITY_DECAY_RATE == DecE(892, -6)
FEE_BPS              == 22
MIN_MARGIN_RATIO     == DecE(115, -2)

\* the catalog's tickers, in insertion order
TickerOrder == <<"ZW9-M3", "GL7-Q2", "CVX-V1", "KS4-N1">>

Tickers == {TickerOrder[i] : i \in 1..Len(TickerOrder)}

InstrumentSpec(ticker, deriv_type, notional_per_unit, max_leverage, decay_coef) ==
    [ticker |-> ticker, deriv_type |-> deriv_type,
     notional_per_unit |-> notional_per_unit,
     max_leverage |-> max_leverage, decay_coef |-> decay_coef]

\* _bootstrap_instruments: the four fixed entries
instruments ==
    [t \in Tickers |->
        CASE t = "ZW9-M3" ->
                InstrumentSpec(t, "ZEPHYR_WOBBLE", DecE(847291, -2), 12, DecE(234, -5))
          [] t = "GL7-Q2" ->
                InstrumentSpec(t, "GELATIN_SWAP", DecE(1250000, -2), 8, DecE(156, -5))
          [] t = "CVX-V1" ->
                InstrumentSpec(t, "CONVEXITY_VANILLA", DecE(2100000, -2), 5,
                               CONVEXITY_DECAY_RATE)
          [] t = "KS4-N1" ->
                InstrumentSpec(t, "KELVIN_SPREAD", DecE(670033, -2), 10, DecE(91, -5))]

(***************************************************************************)
(* The arithmetic of the operations, as functions of their operands        *)
(***************************************************************************)
\* get_mark_price's value for a catalog ticker when the index is base
MarkPrice(base, ticker) ==
    LET spec   == instruments[ticker]
        wobble == DMul(DMul(base, WOBBLE_MULTIPLIER), spec.decay_coef)
    IN  DAdd(base, wobble)

\* a fee that takes FEE_BPS for a percentage
FeeOfPercent(quantity, mark) ==
    DDiv(DMul(DMul(quantity, mark), DInt(FEE_BPS)), DecE(100, 0))

\* the fee of open_position and close_position
FeeOf(quantity, mark) ==
    DDiv(DMul(DMul(quantity, mark), DInt(FEE_BPS)), DecE(10000, 0))

\* margin checks that leave out the minimum-ratio check
MarginCheckLeverageOnly(margin, notional, max_leverage) ==
    IF DLt(margin, DDiv(notional, DInt(max_leverage))) THEN "InsufficientMargin"
    ELSE "ok"

\* margin checks that compare the ratio before the leverage requirement
MarginCheckRatioFirst(margin, notional, max_leverage) ==
    IF DIsZero(notional)
    THEN (IF DIsZero(margin) THEN "InvalidOperation" ELSE "DivisionByZero")
    ELSE IF DLt(DDiv(margin, notional), DDiv(DInt(1), MIN_MARGIN_RATIO))
    THEN "MarginRatioTooLow"
    ELSE IF DLt(margin, DDiv(notional, DInt(max_leverage)))
    THEN "InsufficientMargin"
    ELSE "ok"

\* margin checks that multiply the notional by the leverage
MarginCheckTimesLeverage(margin, notional, max_leverage) ==
    IF DLt(margin, DMul(notional, DInt(max_leverage))) THEN "InsufficientMargin"
    ELSE IF DIsZero(notional)
    THEN (IF DIsZero(margin) THEN "InvalidOperation" ELSE "DivisionByZero")
    ELSE IF DLt(DDiv(margin, notional), DDiv(DInt(1), MIN_MARGIN_RATIO))
    THEN "MarginRatioTooLow"
    ELSE "ok"

\* open_position's two margin checks on a notional: the failure raised, or
\* "ok".  Dividing by a zero notional raises decimal.DivisionByZero
\* (InvalidOperation for 0 / 0) before the ratio is compared.
MarginCheck(margin, notional, max_leverage) ==
    IF DLt(margin, DDiv(notional, DInt(max_leverage))) THEN "InsufficientMargin"
    ELSE IF DIsZero(notional)
    THEN (IF DIsZero(margin) THEN "InvalidOperation" ELSE "DivisionByZero")
    ELSE IF DLt(DDiv(margin, notional), DDiv(DInt(1), MIN_MARGIN_RATIO))
    THEN "MarginRatioTooLow"
    ELSE "ok"

\* open_position's validation when the index is base: the failure it raises,
\* or "ok".  The four ValueErrors are named by their kind.
OpenCheckAt(base, ticker, side, quantity, margin) ==
    IF ticker \notin DOMAIN instruments THEN "UnknownInstrument"
    ELSE IF side \notin {1, -1} THEN "InvalidSide"
    ELSE MarginCheck(margin, DMul(quantity, MarkPrice(base, ticker)),
                     instruments[ticker].max_leverage)

\* pnl's value for a stored position and the mark it uses
PnlOf(side, quantity, entry_price, mark) ==
    DMul(DMul(DInt(side), quantity), DSub(mark, entry_price))

(***************************************************************************)
(* Bounds and the inputs the calls are made with                           *)
(***************************************************************************)
MaxCounter == 5

UnknownTicker == "XX0-Z0"

TimestampChoice == 1000

\* the baseline index, a zero index and a negative index
IndexChoices == {GELATIN_INDEX_BASE, DInt(0), DInt(-100)}

\* the quantities of the calls of open_position
QuantityChoices == {DInt(10), DInt(5), DInt(-10), DInt(0)}

\* the margin the leverage limit requires of an open (required_margin)
RequiredMargin(base, ticker, quantity) ==
    DDiv(DMul(quantity, MarkPrice(base, ticker)),
         DInt(instruments[ticker].max_leverage))

\* Decimal("8031.9353800123858260869565211"): a margin whose quotient by the
\* baseline notional of 5 units of ZW9-M3 (9236.72568701424370) rounds up to
\* Decimal(1) / Decimal("1.15")
EdgeMargin == Dec(0, <<5211, 6956, 2608, 3858, 12, 3538, 319, 8>>, -25)

\* the calls of open_position when the index is base, as <<ticker, side,
\* quantity, margin>>: an ample margin on either side; per ticker, exactly
\* the required margin and one unit below it; the scenario of the
\* specification; a negative quantity, an unknown ticker, an invalid side, a
\* zero quantity with and without margin, the margin at the rounding edge
OpenInputs(base) ==
    {<<"ZW9-M3", side, DInt(10), DInt(20000)>> : side \in {1, -1}}
    \cup {<<t, 1, DInt(10), RequiredMargin(base, t, DInt(10))>> : t \in Tickers}
    \cup {<<t, 1, DInt(10), DSub(RequiredMargin(base, t, DInt(10)), DInt(1))>> :
             t \in Tickers}
    \cup {<<"ZW9-M3", 1, DInt(10), DInt(10000)>>,
          <<"GL7-Q2", -1, DInt(-10), DInt(20000)>>,
          <<UnknownTicker, 1, DInt(10), DInt(20000)>>,
          <<"CVX-V1", 0, DInt(10), DInt(20000)>>,
          <<"KS4-N1", -1, DInt(0), DInt(20000)>>,
          <<"KS4-N1", -1, DInt(0), DInt(0)>>,
          <<"ZW9-M3", 1, DInt(5), EdgeMargin>>}

\* pnl's current_mark: << >> is None (not supplied)
MarkChoices == {<< >>, <<DInt(110)>>, <<DInt(0)>>}

\* an identifier that is never minted: _next_id increments before it hashes
NeverMinted == <<"pos", 0>>

(***************************************************************************)
(* The arithmetic at the inputs of the model, computed once                *)
(***************************************************************************)
MarkPrices ==
    [k \in {<<b, t>> : b \in IndexChoices, t \in Tickers} |-> MarkPrice(k[1], k[2])]

OpenInputsAt == [b \in IndexChoices |-> OpenInputs(b)]

OpenCalls == UNION {{<<b>> \o a : a \in OpenInputsAt[b]} : b \in IndexChoices}

OpenChecks == [k \in OpenCalls |-> OpenCheckAt(k[1], k[2], k[3], k[4], k[5])]

\* the mark prices at these indexes
MarkSet == {MarkPrices[k] : k \in DOMAIN MarkPrices}

Fees ==
    [k \in {<<q, m>> : q \in QuantityChoices, m \in MarkSet} |-> FeeOf(k[1], k[2])]

Pnls ==
    [k \in {<<side, q, entry, m>> :
                side \in {1, -1}, q \in QuantityChoices, entry \in MarkSet,
                m \in MarkSet \cup {c[1] : c \in MarkChoices \ {<< >>}}}
        |-> PnlOf(k[1], k[2], k[3], k[4])]

(***************************************************************************)
(* State of one JelloDerivTrader                                           *)
(***************************************************************************)
VARIABLES
    positions,      \* _positions: position id -> Position
    trade_log,      \* _trade_log: sequence of TradeEvent
    counter,        \* _counter
    gelatin_index,  \* _gelatin_index
    last,           \* the last call: operation, arguments, what it raised, what it returned
    minted,         \* history: every identifier _next_id returned, in order
    closed          \* history: the position ids close_position removed

vars == <<positions, trade_log, counter, gelatin_index, last, minted, closed>>

ledger == <<positions, trade_log, counter, gelatin_index>>

\* a call's record; ret is << >> for None (or nothing returned), else <<value>>
Call(op, args, raised, ret) ==
    [op |-> op, args |-> args, raised |-> raised, ret |-> ret]

NoRaise == "none"

\* a mint that advances the counter twice
next_id_skip(prefix, c) == [counter |-> c + 2, id |-> <<prefix, c + 2>>]

\* a mint that forgets to advance the counter
next_id_reuse(prefix, c) == [counter |-> c, id |-> <<prefix, c + 1>>]

\* _next_id: the counter after the call and the identifier, which is the hash
\* of prefix:counter:salt and is modelled by the pair it is hashed from
next_id(prefix, c) == [counter |-> c + 1, id |-> <<prefix, c + 1>>]

\* a mark that is the price of the last trade when there is one
get_mark_price_last_trade(ticker) ==
    IF trade_log = << >> THEN MarkPrices[<<gelatin_index, ticker>>]
    ELSE trade_log[Len(trade_log)].price

\* get_mark_price for a catalog ticker
get_mark_price(ticker) == MarkPrices[<<gelatin_index, ticker>>]

\* (quantity * mark * FEE_BPS) / Decimal("10000")
Fee(quantity, mark) == Fees[<<quantity, mark>>]

\* open_position's validation: the failure it raises, or "ok"
OpenCheck(ticker, side, quantity, margin) ==
    OpenChecks[<<gelatin_index, ticker, side, quantity, margin>>]

Position(position_id, ticker, side, quantity, entry_price, margin, ts) ==
    [position_id |-> position_id, instrument_ticker |-> ticker, side |-> side,
     quantity |-> quantity, entry_price |-> entry_price,
     margin_posted |-> margin, opened_at_ts |-> ts]

TradeEvent(trade_id, position_id, ticker, side, quantity, price, fee, ts) ==
    [trade_id |-> trade_id, position_id |-> position_id,
     instrument_ticker |-> ticker, side |-> side, quantity |-> quantity,
     price |-> price, fee_paid |-> fee, timestamp |-> ts]

\* a close event recorded at the position's entry price
CloseEventAtEntry(trade_id, pos, mark, fee, ts) ==
    TradeEvent(trade_id, pos.position_id, pos.instrument_ticker, -pos.side,
               pos.quantity, pos.entry_price, fee, ts)

\* close_position's TradeEvent: the position's side negated, its full
\* quantity, the mark and the fee of the close
CloseEvent(trade_id, pos, mark, fee, ts) ==
    TradeEvent(trade_id, pos.position_id, pos.instrument_ticker, -pos.side,
               pos.quantity, mark, fee, ts)

\* a close of an absent identifier that raises like a dict lookup
CloseMissKeyError(position_id, timestamp) ==
    Call("close_position", <<position_id, timestamp>>, "KeyError", << >>)

\* close_position for an identifier that is not in the map: returns None
CloseMiss(position_id, timestamp) ==
    Call("close_position", <<position_id, timestamp>>, NoRaise, << >>)

\* a log that takes the new event at its head
Prepended(log, event) == <<event>> \o log

\* _trade_log.append(event)
Appended(log, event) == Append(log, event)

\* a deletion that leaves the dict as it was
DictKeep(d, k) == d

\* dict assignment and deletion
DictSet(d, k, v) == [x \in DOMAIN d \cup {k} |-> IF x = k THEN v ELSE d[x]]
DictDel(d, k)    == [x \in DOMAIN d \ {k} |-> d[x]]

\* the position identifiers a caller passes: open ones, closed ones and one
\* that was never issued
IdChoices == DOMAIN positions \cup closed \cup {NeverMinted}

(***************************************************************************)
(* Construction and the operations                                         *)
(***************************************************************************)
Init ==
    /\ positions = << >>
    /\ trade_log = << >>
    /\ counter = 0
    /\ gelatin_index = GELATIN_INDEX_BASE
    /\ last = Call("__init__", << >>, NoRaise, << >>)
    /\ minted = << >>
    /\ closed = {}

\* list_instruments: the catalog's values in insertion order
ListInstruments ==
    /\ last' = Call("list_instruments", << >>, NoRaise,
                    <<[i \in 1..Len(TickerOrder) |-> instruments[TickerOrder[i]]]>>)
    /\ UNCHANGED <<ledger, minted, closed>>

\* get_mark_price(ticker), as a call
GetMarkPrice(ticker) ==
    /\ last' = IF ticker \notin DOMAIN instruments
               THEN Call("get_mark_price", <<ticker>>, "UnknownInstrument", << >>)
               ELSE Call("get_mark_price", <<ticker>>, NoRaise,
                         <<get_mark_price(ticker)>>)
    /\ UNCHANGED <<ledger, minted, closed>>

\* an open_position that mints the position id before it validates
OpenPositionMintFirst(ticker, side, quantity, margin, timestamp) ==
    \E outcome \in {OpenCheck(ticker, side, quantity, margin)} :
    \E p \in {next_id("pos", counter)} :
       IF outcome # "ok"
       THEN /\ p.counter <= MaxCounter
            /\ counter' = p.counter
            /\ minted' = Append(minted, p.id)
            /\ last' = Call("open_position",
                            <<ticker, side, quantity, margin, timestamp>>,
                            outcome, << >>)
            /\ UNCHANGED <<positions, trade_log, gelatin_index, closed>>
       ELSE /\ counter + 2 <= MaxCounter
            /\ \E mark \in {get_mark_price(ticker)} :
               \E pos \in {Position(p.id, ticker, side, quantity, mark, margin,
                                    timestamp)} :
               \E fee \in {Fee(quantity, mark)} :
               \E t \in {next_id("trd", p.counter)} :
                  /\ positions' = DictSet(positions, p.id, pos)
                  /\ trade_log' = Appended(trade_log,
                                           TradeEvent(t.id, p.id, ticker, side,
                                                      quantity, mark, fee,
                                                      timestamp))
                  /\ counter' = t.counter
                  /\ minted' = minted \o <<p.id, t.id>>
                  /\ last' = Call("open_position",
                                  <<ticker, side, quantity, margin, timestamp>>,
                                  NoRaise, <<pos>>)
                  /\ UNCHANGED <<gelatin_index, closed>>

\* open_position(ticker, side, quantity, margin, timestamp); a call that
\* would take the counter past MaxCounter is not made
OpenPosition(ticker, side, quantity, margin, timestamp) ==
    \E outcome \in {OpenCheck(ticker, side, quantity, margin)} :
       IF outcome # "ok"
       THEN /\ last' = Call("open_position",
                            <<ticker, side, quantity, margin, timestamp>>,
                            outcome, << >>)
            /\ UNCHANGED <<ledger, minted, closed>>
       ELSE /\ counter + 2 <= MaxCounter
            /\ \E mark \in {get_mark_price(ticker)} :
               \E p \in {next_id("pos", counter)} :
               \E pos \in {Position(p.id, ticker, side, quantity, mark, margin,
                                    timestamp)} :
               \E fee \in {Fee(quantity, mark)} :
               \E t \in {next_id("trd", p.counter)} :
                  /\ positions' = DictSet(positions, p.id, pos)
                  /\ trade_log' = Appended(trade_log,
                                           TradeEvent(t.id, p.id, ticker, side,
                                                      quantity, mark, fee,
                                                      timestamp))
                  /\ counter' = t.counter
                  /\ minted' = minted \o <<p.id, t.id>>
                  /\ last' = Call("open_position",
                                  <<ticker, side, quantity, margin, timestamp>>,
                                  NoRaise, <<pos>>)
                  /\ UNCHANGED <<gelatin_index, closed>>

\* a close_position that refuses to trade at a mark that is not positive
ClosePositionChecked(position_id, timestamp) ==
    IF position_id \notin DOMAIN positions
    THEN /\ last' = CloseMiss(position_id, timestamp)
         /\ UNCHANGED <<ledger, minted, closed>>
    ELSE \E pos \in {positions[position_id]} :
         \E mark \in {get_mark_price(pos.instrument_ticker)} :
            IF DSgn(mark) <= 0
            THEN /\ last' = Call("close_position", <<position_id, timestamp>>,
                                 "ValueError", << >>)
                 /\ UNCHANGED <<ledger, minted, closed>>
            ELSE /\ counter + 1 <= MaxCounter
                 /\ \E fee \in {Fee(pos.quantity, mark)} :
                    \E t \in {next_id("trd", counter)} :
                    \E event \in {CloseEvent(t.id, pos, mark, fee, timestamp)} :
                       /\ trade_log' = Appended(trade_log, event)
                       /\ positions' = DictDel(positions, position_id)
                       /\ counter' = t.counter
                       /\ minted' = Append(minted, t.id)
                       /\ closed' = closed \cup {position_id}
                       /\ last' = Call("close_position",
                                       <<position_id, timestamp>>, NoRaise,
                                       <<event>>)
                       /\ UNCHANGED gelatin_index

\* close_position(position_id, timestamp); a call that would take the
\* counter past MaxCounter is not made
ClosePosition(position_id, timestamp) ==
    IF position_id \notin DOMAIN positions
    THEN /\ last' = CloseMiss(position_id, timestamp)
         /\ UNCHANGED <<ledger, minted, closed>>
    ELSE /\ counter + 1 <= MaxCounter
         /\ \E pos \in {positions[position_id]} :
            \E mark \in {get_mark_price(pos.instrument_ticker)} :
            \E fee \in {Fee(pos.quantity, mark)} :
            \E t \in {next_id("trd", counter)} :
            \E event \in {CloseEvent(t.id, pos, mark, fee, timestamp)} :
               /\ trade_log' = Appended(trade_log, event)
               /\ positions' = DictDel(positions, position_id)
               /\ counter' = t.counter
               /\ minted' = Append(minted, t.id)
               /\ closed' = closed \cup {position_id}
               /\ last' = Call("close_position", <<position_id, timestamp>>,
                               NoRaise, <<event>>)
               /\ UNCHANGED gelatin_index

\* "current_mark or ...": None and a zero Decimal are both falsy
Falsy(current_mark) == current_mark = << >> \/ DIsZero(current_mark[1])

\* pnl(position_id, current_mark): the value returned
PnlValue(position_id, current_mark) ==
    IF position_id \notin DOMAIN positions THEN DInt(0)
    ELSE LET pos  == positions[position_id]
             mark == IF Falsy(current_mark)
                     THEN get_mark_price(pos.instrument_ticker)
                     ELSE current_mark[1]
         IN  Pnls[<<pos.side, pos.quantity, pos.entry_price, mark>>]

\* a pnl that looks the position up without the membership test
PnlUnguarded(position_id, current_mark) ==
    /\ last' = IF position_id \notin DOMAIN positions
               THEN Call("pnl", <<position_id, current_mark>>, "KeyError", << >>)
               ELSE Call("pnl", <<position_id, current_mark>>, NoRaise,
                         <<PnlValue(position_id, current_mark)>>)
    /\ UNCHANGED <<ledger, minted, closed>>

Pnl(position_id, current_mark) ==
    /\ last' = Call("pnl", <<position_id, current_mark>>, NoRaise,
                    <<PnlValue(position_id, current_mark)>>)
    /\ UNCHANGED <<ledger, minted, closed>>

\* an update that refuses an index that is not positive
UpdateGelatinIndexValidated(value) ==
    /\ gelatin_index' = IF DSgn(value) > 0 THEN value ELSE gelatin_index
    /\ last' = Call("update_gelatin_index", <<value>>,
                    IF DSgn(value) > 0 THEN NoRaise ELSE "ValueError", << >>)
    /\ UNCHANGED <<positions, trade_log, counter, minted, closed>>

\* update_gelatin_index(value)
UpdateGelatinIndex(value) ==
    /\ gelatin_index' = value
    /\ last' = Call("update_gelatin_index", <<value>>, NoRaise, << >>)
    /\ UNCHANGED <<positions, trade_log, counter, minted, closed>>

Next ==
    \/ ListInstruments
    \/ \E ticker \in Tickers \cup {UnknownTicker} : GetMarkPrice(ticker)
    \/ \E a \in OpenInputsAt[gelatin_index] :
          OpenPosition(a[1], a[2], a[3], a[4], TimestampChoice)
    \/ \E position_id \in IdChoices : ClosePosition(position_id, TimestampChoice)
    \/ \E position_id \in IdChoices, current_mark \in MarkChoices :
          Pnl(position_id, current_mark)
    \/ \E value \in IndexChoices : UpdateGelatinIndex(value)

Spec == Init /\ [][Next]_vars

(***************************************************************************)
(* Claims                                                                  *)
(***************************************************************************)
\* a ledger as constructed: nothing opened, nothing logged, the baseline index
FreshLedger ==
    /\ positions = << >>
    /\ trade_log = << >>
    /\ counter = 0
    /\ gelatin_index = GELATIN_INDEX_BASE

\* the arguments of the scenario of the specification
ScenarioCall == <<"ZW9-M3", 1, DInt(10), DInt(10000), TimestampChoice>>

\* C1 (as the specification states it): on a freshly constructed ledger,
\* open_position("ZW9-M3", 1, 10, 10000, 1000) raises nothing, returns a
\* Position whose entry_price is the mark of ZW9-M3 at the baseline index, and
\* leaves one TradeEvent in the log, with fee 10 * entry_price * 0.0022.
C1_ScenarioOpens ==
    [][(FreshLedger /\ last'.op = "open_position" /\ last'.args = ScenarioCall)
       => /\ last'.raised = NoRaise
          /\ last'.ret # << >>
          /\ last'.ret[1].entry_price = MarkPrice(GELATIN_INDEX_BASE, "ZW9-M3")
          /\ Len(trade_log') = 1
          /\ DEq(trade_log'[1].fee_paid,
                 DMul(DMul(DInt(10), last'.ret[1].entry_price), DecE(22, -4)))]_vars

\* C1: what the code does with the scenario: the call is refused, the margin
\* ratio 10000 / 18473.45 being below 1 / 1.15, and the ledger is as constructed
C1_ScenarioRefused ==
    /\ FreshLedger
    /\ last.op = "open_position"
    /\ last.args = ScenarioCall
    /\ last.raised = "MarginRatioTooLow"

\* the two conditions of margin sufficiency, as the claim states them
Sufficient(ticker, quantity, entry_price, margin) ==
    \E notional \in {DMul(quantity, entry_price)} :
       /\ ~DIsZero(notional)
       /\ DGe(margin, DDiv(notional, DInt(instruments[ticker].max_leverage)))
       /\ DGe(DDiv(margin, notional), DDiv(DInt(1), DecE(115, -2)))

\* margin sufficiency of what the calls of the model can store
SufficientAt ==
    [k \in UNION {{<<a[1], a[3], MarkPrices[<<b, a[1]>>], a[4]>> :
                      a \in {c \in OpenInputsAt[b] : c[1] \in Tickers}} :
                  b \in IndexChoices}
        |-> Sufficient(k[1], k[2], k[3], k[4])]

\* C2: in every reachable state every stored Position p has, with notional =
\* p.quantity * p.entry_price and L its instrument's max_leverage,
\* p.margin_posted >= notional / L and p.margin_posted / notional >= 1 / 1.15.
C2_MarginSufficient ==
    \A id \in DOMAIN positions :
       SufficientAt[<<positions[id].instrument_ticker, positions[id].quantity,
                      positions[id].entry_price, positions[id].margin_posted>>]

\* C2: two positions are stored, and the index has moved since they were opened
C2_Witness ==
    /\ Cardinality(DOMAIN positions) = 2
    /\ gelatin_index = DInt(0)

\* the boundary of the leverage check when the index is base, for every
\* catalog ticker, side and quantity: with margin exactly the required margin
\* the call succeeds exactly if required margin / notional >= 1 / 1.15, and
\* with one unit less it fails with InsufficientMargin
BoundaryAt(base) ==
    \A t \in Tickers, side \in {1, -1}, quantity \in QuantityChoices :
       \E req \in {RequiredMargin(base, t, quantity)} :
       \E notional \in {DMul(quantity, MarkPrice(base, t))} :
          /\ OpenCheckAt(base, t, side, quantity, req) = "ok"
             <=> /\ ~DIsZero(notional)
                 /\ DGe(DDiv(req, notional), DDiv(DInt(1), DecE(115, -2)))
          /\ OpenCheckAt(base, t, side, quantity, DSub(req, DInt(1)))
             = "InsufficientMargin"

Boundary == [b \in IndexChoices |-> BoundaryAt(b)]

\* the boundary calls the model makes, per index and ticker: the required
\* margin of quantity 10, one unit less, and whether required margin /
\* notional >= 1 / 1.15
BoundaryCalls ==
    [k \in DOMAIN MarkPrices |->
        CHOOSE r \in
          { [req |-> req, below |-> DSub(req, DInt(1)),
             ratio_ok |-> /\ ~DIsZero(notional)
                          /\ DGe(DDiv(req, notional), DDiv(DInt(1), DecE(115, -2)))]
            : req \in {RequiredMargin(k[1], k[2], DInt(10))},
              notional \in {DMul(DInt(10), MarkPrice(k[1], k[2]))} } : TRUE]

\* the last call is open_position for this ticker with this margin
Opened(ticker, margin) ==
    /\ last.op = "open_position"
    /\ last.args[1] = ticker
    /\ last.args[2] = 1
    /\ last.args[3] = DInt(10)
    /\ last.args[4] = margin

\* C3: for every catalog ticker, valid side and quantity, open_position with
\* margin = requiredMargin succeeds iff requiredMargin / notional >= 1 / 1.15,
\* and with margin one unit below requiredMargin fails with InsufficientMargin;
\* the calls made at the boundary are recorded with these outcomes.
C3_Boundary ==
    /\ Boundary[gelatin_index]
    /\ \A t \in Tickers :
          \E c \in {BoundaryCalls[<<gelatin_index, t>>]} :
             /\ Opened(t, c.req) => (last.raised = NoRaise <=> c.ratio_ok)
             /\ Opened(t, c.below) => last.raised = "InsufficientMargin"

\* C3: at the baseline index a call with exactly the required margin has been
\* refused for its ratio; the call one unit below is refused as insufficient
C3_Witness ==
    /\ gelatin_index = GELATIN_INDEX_BASE
    /\ Opened("CVX-V1", BoundaryCalls[<<gelatin_index, "CVX-V1">>].req)
    /\ last.raised = "MarginRatioTooLow"

\* the step is a successful call of open_position
OpenedStep == last'.op = "open_position" /\ last'.raised = NoRaise

\* quantity * price * 22 / 10000
FeeAt(quantity, price) ==
    DDiv(DMul(DMul(quantity, price), DInt(22)), DInt(10000))

\* C4: every successful open_position adds exactly one new Position, with
\* entry_price the current mark; appends exactly one TradeEvent, the final log
\* entry, whose position_id, ticker, side, quantity and price are those of the
\* returned Position and whose fee_paid is quantity * price * 22 / 10000; and
\* advances the counter by 2, the position id being minted from counter + 1
\* with prefix "pos" and the trade id from counter + 2 with prefix "trd".
C4_OpenEffects ==
    [][OpenedStep =>
         \E pos \in {last'.ret[1]} :
         \E event \in {trade_log'[Len(trade_log')]} :
            /\ pos.position_id \notin DOMAIN positions
            /\ DOMAIN positions' = DOMAIN positions \cup {pos.position_id}
            /\ \A id \in DOMAIN positions : positions'[id] = positions[id]
            /\ positions'[pos.position_id] = pos
            /\ pos.instrument_ticker = last'.args[1]
            /\ pos.entry_price = MarkPrice(gelatin_index, pos.instrument_ticker)
            /\ gelatin_index' = gelatin_index
            /\ trade_log' = Append(trade_log, event)
            /\ event.position_id = pos.position_id
            /\ event.instrument_ticker = pos.instrument_ticker
            /\ event.side = pos.side
            /\ event.quantity = pos.quantity
            /\ event.price = pos.entry_price
            /\ event.fee_paid = FeeAt(event.quantity, event.price)
            /\ counter' = counter + 2
            /\ pos.position_id = <<"pos", counter + 1>>
            /\ event.trade_id = <<"trd", counter + 2>>]_vars

\* C4: an open has succeeded beside an earlier position, after an index update
C4_Witness ==
    /\ last.op = "open_position"
    /\ last.raised = NoRaise
    /\ Cardinality(DOMAIN positions) = 2
    /\ gelatin_index = DInt(-100)

\* C5: close_position on an identifier that is not in the position map
\* (never opened, or already closed) returns None without raising and leaves
\* the position map, the trade log, the counter and the index unchanged.
C5_CloseMiss ==
    [][(last'.op = "close_position" /\ last'.args[1] \notin DOMAIN positions)
       => /\ last'.raised = NoRaise
          /\ last'.ret = << >>
          /\ UNCHANGED ledger]_vars

\* C5: a second close of a closed position found nothing, another position
\* being open
C5_Witness ==
    /\ last.op = "close_position"
    /\ last.ret = << >>
    /\ last.args[1] \in closed
    /\ positions # << >>

\* C6: close_position on an identifier in the map removes exactly that
\* Position, appends exactly one TradeEvent whose side is the position's side
\* negated, whose quantity is the position's, whose price is the mark at the
\* index of the close and whose fee is quantity * that mark * 22 / 10000, and
\* advances the counter by 1.
C6_CloseEffects ==
    [][(last'.op = "close_position" /\ last'.args[1] \in DOMAIN positions)
       => \E id \in {last'.args[1]} :
          \E pos \in {positions[last'.args[1]]} :
             /\ last'.raised = NoRaise
             /\ last'.ret # << >>
             /\ DOMAIN positions' = DOMAIN positions \ {id}
             /\ \A other \in DOMAIN positions' : positions'[other] = positions[other]
             /\ trade_log' = Append(trade_log, last'.ret[1])
             /\ last'.ret[1].position_id = id
             /\ last'.ret[1].instrument_ticker = pos.instrument_ticker
             /\ last'.ret[1].side = -pos.side
             /\ last'.ret[1].quantity = pos.quantity
             /\ last'.ret[1].price = MarkPrice(gelatin_index, pos.instrument_ticker)
             /\ last'.ret[1].fee_paid = FeeAt(pos.quantity, last'.ret[1].price)
             /\ gelatin_index' = gelatin_index
             /\ counter' = counter + 1]_vars

\* C6: a position was closed at a mark other than its entry price, another
\* position staying open
C6_Witness ==
    /\ last.op = "close_position"
    /\ last.ret # << >>
    /\ positions # << >>
    /\ \E i \in 1..Len(trade_log) :
          /\ trade_log[i].position_id = last.ret[1].position_id
          /\ trade_log[i].price # last.ret[1].price

\* the identifiers of the TradeEvents in the log, in order
TradeIds == [i \in 1..Len(trade_log) |-> trade_log[i].trade_id]

\* the position identifiers issued so far, open or closed
IssuedPositions == DOMAIN positions \cup closed

\* a sequence without a repeated element
Distinct(seq) == \A i, j \in 1..Len(seq) : i # j => seq[i] # seq[j]

\* C7: identifiers are never reused: the counter never decreases and grows at
\* every mint, so the minted identifiers are pairwise distinct: the trade_ids
\* in the log are pairwise distinct, each position id ever issued was minted
\* once, and no position id is a trade id.
C7_NoReuse ==
    /\ [](/\ Distinct(minted)
          /\ Distinct(TradeIds)
          /\ \A id \in IssuedPositions :
                Cardinality({i \in 1..Len(minted) : minted[i] = id}) = 1
          /\ Cardinality(IssuedPositions) + Len(trade_log) = Len(minted)
          /\ IssuedPositions \cap {TradeIds[i] : i \in 1..Len(TradeIds)} = {})
    /\ [][/\ counter' >= counter
          /\ Len(minted') - Len(minted) = counter' - counter]_vars

\* C7: five identifiers have been minted, one for a position since closed
C7_Witness ==
    /\ Len(minted) = 5
    /\ closed # {}
    /\ positions # << >>

\* C8: the trade log is append-only: in every step the log before is a prefix
\* of the log after, so no recorded TradeEvent is removed, reordered or
\* altered; update_gelatin_index in particular leaves the log as it is.
C8_AppendOnly ==
    [][/\ Len(trade_log') >= Len(trade_log)
       /\ SubSeq(trade_log', 1, Len(trade_log)) = trade_log
       /\ last'.op = "update_gelatin_index" => trade_log' = trade_log]_vars

\* C8: the index was updated after two TradeEvents were recorded
C8_Witness ==
    /\ Len(trade_log) >= 2
    /\ last.op = "update_gelatin_index"
    /\ gelatin_index # GELATIN_INDEX_BASE

\* the places of the log's TradeEvents for a position
EventsOf(id) == {i \in 1..Len(trade_log) : trade_log[i].position_id = id}

\* C9: each position id in the map is referenced by exactly one TradeEvent,
\* its open event, with the position's side; each position id opened and since
\* closed by exactly two, the open event and later a close event with the
\* opposite side and the same quantity and ticker; and no TradeEvent
\* references an id that was never opened.
C9_Lifecycle ==
    /\ \A id \in DOMAIN positions :
          /\ Cardinality(EventsOf(id)) = 1
          /\ \A i \in EventsOf(id) :
                /\ trade_log[i].side = positions[id].side
                /\ trade_log[i].quantity = positions[id].quantity
    /\ \A id \in closed :
          /\ id \notin DOMAIN positions
          /\ Cardinality(EventsOf(id)) = 2
          /\ \A i, j \in EventsOf(id) :
                i < j => /\ trade_log[j].side = -trade_log[i].side
                         /\ trade_log[j].quantity = trade_log[i].quantity
                         /\ trade_log[j].instrument_ticker
                            = trade_log[i].instrument_ticker
    /\ \A i \in 1..Len(trade_log) : trade_log[i].position_id \in IssuedPositions

\* C9: one position has been closed and another is open
C9_Witness ==
    /\ closed # {}
    /\ positions # << >>
    /\ Len(trade_log) = 3

\* C10 (as the specification states it): for a position in the map, pnl(id, m)
\* with any supplied mark m, zero included, returns side * quantity *
\* (m - entry_price), and pnl(id) with no mark returns side * quantity *
\* (get_mark_price(ticker) - entry_price).
C10_PnlFormula ==
    (last.op = "pnl" /\ last.args[1] \in DOMAIN positions)
    => \E pos \in {positions[last.args[1]]} :
          last.ret[1]
          = PnlOf(pos.side, pos.quantity, pos.entry_price,
                  IF last.args[2] = << >>
                  THEN MarkPrice(gelatin_index, pos.instrument_ticker)
                  ELSE last.args[2][1])

\* C10: what the code does with a supplied mark of zero: it returns the pnl at
\* the current mark, which here is the entry price, so zero instead of
\* -side * quantity * entry_price
C10_ZeroMarkIgnored ==
    /\ last.op = "pnl"
    /\ last.args[1] \in DOMAIN positions
    /\ last.args[2] = <<DInt(0)>>
    /\ gelatin_index = GELATIN_INDEX_BASE
    /\ last.ret[1]
       = PnlOf(positions[last.args[1]].side, positions[last.args[1]].quantity,
               positions[last.args[1]].entry_price,
               MarkPrice(gelatin_index, positions[last.args[1]].instrument_ticker))
    /\ ~DEq(last.ret[1],
            PnlOf(positions[last.args[1]].side, positions[last.args[1]].quantity,
                  positions[last.args[1]].entry_price, DInt(0)))

\* C11: pnl is a pure query: for an identifier that is not in the position
\* map (never opened, or already closed) it returns zero without raising, and
\* for every argument it leaves the position map, the trade log, the counter
\* and the index unchanged.
C11_PnlPure ==
    [][last'.op = "pnl"
       => /\ UNCHANGED ledger
          /\ last'.args[1] \notin DOMAIN positions
             => (last'.raised = NoRaise /\ last'.ret = <<DInt(0)>>)]_vars

\* C11: pnl of a closed position returned zero, with a supplied mark, while
\* another position was open
C11_Witness ==
    /\ last.op = "pnl"
    /\ last.args[1] \in closed
    /\ last.args[2] = <<DInt(110)>>
    /\ last.ret = <<DInt(0)>>
    /\ positions # << >>

\* v + v * 0.00371 * decay_coef(t), at the values the index takes
MarkFormula ==
    [k \in {<<v, t>> : v \in IndexChoices, t \in Tickers}
        |-> DAdd(k[1], DMul(DMul(k[1], DecE(371, -5)), instruments[k[2]].decay_coef))]

\* C12: update_gelatin_index(v) accepts every v, zero and negative included,
\* sets the index to v and leaves the position map (every entry_price and
\* margin_posted with it), the trade log and the counter unchanged; the
\* catalog is constant; afterwards get_mark_price(t) is
\* v + v * 0.00371 * decay_coef(t) for every catalog ticker t.
C12_UpdateIndex ==
    [][last'.op = "update_gelatin_index"
       => /\ last'.raised = NoRaise
          /\ gelatin_index' = last'.args[1]
          /\ UNCHANGED <<positions, trade_log, counter>>
          /\ \A t \in Tickers :
                get_mark_price(t)' = MarkFormula[<<last'.args[1], t>>]]_vars

\* C12: the index was set to a negative value over an open position
C12_Witness ==
    /\ last.op = "update_gelatin_index"
    /\ last.args[1] = DInt(-100)
    /\ gelatin_index = DInt(-100)
    /\ positions # << >>
    /\ \A id \in DOMAIN positions : DSgn(positions[id].entry_price) > 0

\* C13: get_mark_price is a function of the ticker and the current index
\* alone: in every state, whatever its position map, trade log and counter,
\* a call for a catalog ticker returns the value that belongs to the index,
\* so two states with the same index give the same value; a call for a ticker
\* outside the catalog fails with UnknownInstrument; no call changes state.
C13_MarkDeterministic ==
    [][last'.op = "get_mark_price"
       => /\ UNCHANGED ledger
          /\ IF last'.args[1] \in Tickers
             THEN /\ last'.raised = NoRaise
                  /\ last'.ret = <<MarkPrices[<<gelatin_index, last'.args[1]>>]>>
             ELSE /\ last'.raised = "UnknownInstrument"
                  /\ last'.ret = << >>]_vars

\* C13: the mark was read at the baseline index after an open at another
\* index and a close, and it is the mark of the fresh ledger
C13_Witness ==
    /\ last.op = "get_mark_price"
    /\ last.ret = <<MarkPrices[<<GELATIN_INDEX_BASE, "GL7-Q2">>]>>
    /\ gelatin_index = GELATIN_INDEX_BASE
    /\ closed # {}
    /\ \E i \in 1..Len(trade_log) :
          trade_log[i].price \notin {MarkPrices[<<GELATIN_INDEX_BASE, t>>] : t \in Tickers}

\* C14 (as the specification states it): in every reachable state, also
\* after update_gelatin_index set a zero or negative index, every Position in
\* the map has side +1 or -1, quantity > 0, margin_posted > 0 and a ticker of
\* the catalog.
C14_PositionsWellFormed ==
    \A id \in DOMAIN positions :
       /\ positions[id].side \in {1, -1}
       /\ DSgn(positions[id].quantity) > 0
       /\ DSgn(positions[id].margin_posted) > 0
       /\ positions[id].instrument_ticker \in Tickers

\* C14: what the code stores at a negative index: a position with a negative
\* quantity, its notional being positive there
C14_NegativeQuantityStored ==
    \E id \in DOMAIN positions :
       /\ DSgn(positions[id].quantity) < 0
       /\ DSgn(positions[id].entry_price) < 0
       /\ DSgn(positions[id].margin_posted) > 0

\* the four categorized failures of open_position
OpenFailures ==
    {"UnknownInstrument", "InvalidSide", "InsufficientMargin", "MarginRatioTooLow"}

\* C15 (as the specification states it): every call of open_position, a zero
\* quantity and a zero index included, either succeeds or fails with one of
\* UnknownInstrument, InvalidSide, InsufficientMargin, MarginRatioTooLow; no
\* other failure, such as a division error, occurs.
C15_CategorizedFailures ==
    last.op = "open_position" => last.raised \in OpenFailures \cup {NoRaise}

\* C15: what the code does with a zero notional: the division margin /
\* notional raises decimal.DivisionByZero on the fresh ledger
C15_DivisionError ==
    /\ FreshLedger
    /\ last.op = "open_position"
    /\ DIsZero(last.args[3])
    /\ last.raised = "DivisionByZero"

\* C16: a failed open_position is atomic: whatever it raises, the position
\* map, the trade log, the counter and the index are as before the call, and
\* no identifier is consumed.
C16_FailedOpenAtomic ==
    [][(last'.op = "open_position" /\ last'.raised # NoRaise)
       => /\ UNCHANGED ledger
          /\ minted' = minted
          /\ last'.ret = << >>]_vars

\* C16: an open failed on the margin ratio beside an open position, whose
\* event is the whole log and whose identifiers are all that was minted
C16_Witness ==
    /\ last.op = "open_position"
    /\ last.raised = "MarginRatioTooLow"
    /\ Cardinality(DOMAIN positions) = 1
    /\ Len(trade_log) = 1
    /\ counter = 2

\* C17: once a position has been closed its identifier never appears in the
\* position map again, whatever open_position calls follow: in every later
\* state it is absent from the map, every further close_position on it
\* returns not-found and appends nothing, and pnl on it returns zero.
C17_ClosedStaysClosed ==
    /\ [](closed \cap DOMAIN positions = {})
    /\ [][/\ closed \subseteq closed'
          /\ closed' \cap DOMAIN positions' = {}
          /\ (last'.op = "close_position" /\ last'.args[1] \in closed)
             => (last'.ret = << >> /\ last'.raised = NoRaise
                 /\ trade_log' = trade_log /\ positions' = positions)
          /\ (last'.op = "pnl" /\ last'.args[1] \in closed)
             => (last'.ret = <<DInt(0)>> /\ last'.raised = NoRaise)]_vars

\* C17: a position was opened and closed, another was opened after that, and
\* a further close of the first found nothing
C17_Witness ==
    /\ Len(minted) = 5
    /\ minted[3][1] = "trd"
    /\ minted[4][1] = "pos"
    /\ closed = {minted[1]}
    /\ DOMAIN positions = {minted[4]}
    /\ last.op = "close_position"
    /\ last.args[1] = minted[1]
    /\ last.ret = << >>

\* the number of successful opens so far: each minted one position id
Opens == Cardinality({i \in 1..Len(minted) : minted[i][1] = "pos"})

\* the number of successful closes so far: each removed one position
Closes == Cardinality(closed)

\* C18: in every reachable state, with O successful opens and C successful
\* closes so far, the counter is 2*O + C, the trade log has O + C entries and
\* the map has O - C positions; failed opens, not-found closes, pnl,
\* get_mark_price, list_instruments and update_gelatin_index change none of
\* the three.
C18_CounterAccounting ==
    /\ [](/\ counter = 2 * Opens + Closes
          /\ Len(trade_log) = Opens + Closes
          /\ Cardinality(DOMAIN positions) = Opens - Closes)
    /\ [][(\/ last'.raised # NoRaise
           \/ last'.op = "close_position" /\ last'.ret = << >>
           \/ last'.op \in {"pnl", "get_mark_price", "list_instruments",
                            "update_gelatin_index"})
          => /\ counter' = counter
             /\ Len(trade_log') = Len(trade_log)
             /\ Cardinality(DOMAIN positions') = Cardinality(DOMAIN positions)
             /\ Opens' = Opens
             /\ Closes' = Closes]_vars

\* C18: two opens and one close have succeeded, and then an open failed
C18_Witness ==
    /\ Opens = 2
    /\ Closes = 1
    /\ counter = 5
    /\ last.op = "open_position"
    /\ last.raised = "InsufficientMargin"

\* the calls of the model with a catalog ticker and a valid side, as <<index,
\* ticker, side, quantity, margin>>
ValidOpenCalls == {k \in OpenCalls : k[2] \in Tickers /\ k[3] \in {1, -1}}

\* of such a call: its notional > 0; the ratio check as the code computes it,
\* margin / notional >= 1 / 1.15 with both quotients rounded to 28 digits; the
\* leverage check; margin * 1.15 >= notional; notional / margin <= 1.15
RatioFacts(k) ==
    CHOOSE r \in
      {[positive |-> DSgn(notional) > 0,
        ratio    |-> /\ ~DIsZero(notional)
                     /\ DGe(DDiv(margin, notional), DDiv(DInt(1), DecE(115, -2))),
        leverage |-> DGe(margin,
                         DDiv(notional, DInt(instruments[k[2]].max_leverage))),
        times    |-> DGe(DMul(margin, DecE(115, -2)), notional),
        levered  |-> /\ ~DIsZero(margin)
                     /\ DGe(DecE(115, -2), DDiv(notional, margin))]
       : notional \in {DMul(k[4], MarkPrices[<<k[1], k[2]>>])},
         margin \in {k[5]}} : TRUE

RatioFactsAt == [k \in ValidOpenCalls |-> RatioFacts(k)]

\* the call that stored the position pos, were the index the one it was
\* opened at
CallOf(pos) ==
    CHOOSE k \in ValidOpenCalls :
       /\ k[2] = pos.instrument_ticker
       /\ k[4] = pos.quantity
       /\ k[5] = pos.margin_posted
       /\ MarkPrices[<<k[1], k[2]>>] = pos.entry_price

\* the last call, when it is an open_position with a catalog ticker and a
\* valid side
LastValidOpen ==
    /\ last.op = "open_position"
    /\ last.args[1] \in Tickers
    /\ last.args[2] \in {1, -1}

\* C19 (as the specification states it): for every catalog instrument and
\* positive notional a margin that passes the ratio check passes the leverage
\* check; every stored Position has notional / margin_posted <= 1.15 at open;
\* and open_position succeeds for a valid ticker and side exactly when
\* notional > 0 and margin * 1.15 >= notional.
C19_TimesDecides ==
    /\ \A k \in ValidOpenCalls :
          (RatioFactsAt[k].positive /\ RatioFactsAt[k].ratio)
          => RatioFactsAt[k].leverage
    /\ \A id \in DOMAIN positions : RatioFactsAt[CallOf(positions[id])].levered
    /\ LastValidOpen
       => \E k \in {<<gelatin_index>> \o SubSeq(last.args, 1, 4)} :
             last.raised = NoRaise
             <=> (RatioFactsAt[k].positive /\ RatioFactsAt[k].times)

\* C19 (amended): for every catalog instrument and positive notional a margin
\* that passes the ratio check as the code computes it (margin / notional,
\* rounded to 28 digits, is at least 1 / 1.15 rounded to 28 digits) passes the
\* leverage check; every stored Position has notional / margin_posted, rounded
\* to 28 digits, <= 1.15 at open; and open_position succeeds for a valid
\* ticker and side exactly when notional > 0 and that ratio check passes.
C19_RatioDecides ==
    /\ \A k \in ValidOpenCalls :
          (RatioFactsAt[k].positive /\ RatioFactsAt[k].ratio)
          => RatioFactsAt[k].leverage
    /\ \A id \in DOMAIN positions : RatioFactsAt[CallOf(positions[id])].levered
    /\ LastValidOpen
       => \E k \in {<<gelatin_index>> \o SubSeq(last.args, 1, 4)} :
             last.raised = NoRaise
             <=> (RatioFactsAt[k].positive /\ RatioFactsAt[k].ratio)

\* C19: the margin at the rounding edge opened a position, though its product
\* by 1.15 is below the notional
C19_Witness ==
    /\ last.op = "open_position"
    /\ last.args[4] = EdgeMargin
    /\ last.raised = NoRaise
    /\ DLt(DMul(EdgeMargin, DecE(115, -2)),
           DMul(last.ret[1].quantity, last.ret[1].entry_price))
    /\ Cardinality(DOMAIN positions) = 2

\* C20: an open position can always be closed: in every reachable state the
\* ticker of every Position in the map is in the catalog, and at every value
\* of the index, zero and negative included, close_position on an identifier
\* in the map never raises and returns a TradeEvent, that of the position.
C20_CloseNeverRaises ==
    /\ [](\A id \in DOMAIN positions :
             /\ positions[id].instrument_ticker \in DOMAIN instruments
             /\ positions[id].position_id = id)
    /\ [][\A v \in IndexChoices :
             (/\ gelatin_index = v
              /\ last'.op = "close_position"
              /\ last'.args[1] \in DOMAIN positions)
             => /\ last'.raised = NoRaise
                /\ Len(last'.ret) = 1
                /\ last'.ret[1].position_id = last'.args[1]
                /\ last'.ret[1] = trade_log'[Len(trade_log')]]_vars

\* C20: a position opened at the baseline was closed at a zero index, for a
\* price and a fee of zero
C20_Witness ==
    /\ last.op = "close_position"
    /\ last.raised = NoRaise
    /\ last.ret # << >>
    /\ gelatin_index = DInt(0)
    /\ DIsZero(last.ret[1].price)
    /\ DIsZero(last.ret[1].fee_paid)
    /\ DSgn(trade_log[1].price) > 0

====
